---- MODULE Spec2Model ----
(***************************************************************************)
(* Model of superphot's classification engine (superphot/classify.py):     *)
(* the leave-one-out cross-validation driver validate_classifier and the   *)
(* MultivariateGaussian over-sampler.                                      *)
(*                                                                         *)
(* Tables are sequences of rows.  A fitted pipeline is identified by the   *)
(* table it was fitted on, and a probability vector by the fit that        *)
(* predicted it, so that "which model produced this row's probabilities"   *)
(* is a state the properties can read.                                     *)
(***************************************************************************)
EXTENDS Integers, Sequences, FiniteSets, TLC

VARIABLES
    \* ---- validate_classifier(pipeline, train_data, test_data, aggregate)
    train_data,        \* the caller's training table: sequence of rows
    test_data,         \* the caller's test table (the rows of train_data once aliased)
    test_is_None,      \* TRUE when the caller passed test_data=None
    aggregate,         \* the aggregate argument
    pipeline,          \* the pipeline object: what it is currently fitted on
    probabilities,     \* the 'probabilities' column of test_data (<<>> = no column)
    vc_pc,             \* position in validate_classifier
    vc_i,              \* index of the loop over train_data['filename']
    vc_refits,         \* number of pipeline.fit calls made inside the loop
    vc_refit_failed,   \* TRUE once a refit (or its prediction) inside the loop raised
    vc_error,          \* the exception that left validate_classifier ("" = none)
    vc_result,         \* the returned table (<<>> = nothing returned)
    vc_caller,         \* the 'probabilities' column of the two table objects the
                       \* caller holds (its train_data and its test_data)
    \* ---- one MultivariateGaussian instance and its caller
    X,                 \* the caller's feature matrix: sequence of rows
    y,                 \* the caller's label vector
    samples_per_class, \* self.samples_per_class: <<>> for None, <<k>> for the int k
    random_state,      \* self.random_state: <<>> for None, <<seed>> for an int
    sampling_strategy_,\* self.sampling_strategy_: class -> rows to add (<<>> = not set)
    mean_,             \* self.mean_: dict class -> mean
    cov_,              \* self.cov_: dict class -> covariance
    rs_,               \* self.rs_: <<>> while the attribute is not set, else <<generator>>
    mg_calls,          \* calls made on the instance so far
    mg_fit,            \* "never": fit_resample not called yet; "called": called, never
                       \* returned; "completed": a fit_resample call has returned
    nan_raises,        \* whether this build's multivariate_normal raises on a
                       \* not-a-number covariance (else it returns rows)
    ret,               \* outcome of the last call on the instance
    \* ---- the pipeline of _train, train_classifier and classify
    pl_args,           \* the --classifier and --sampler choices of _train
    pl_steps,          \* the steps of the pipeline object (<<>> = not built yet)
    pl_log,            \* the calls made on the pipeline, each with the stage
                       \* methods it invoked, in order
    pl_error,          \* the exception that ended the last entry point ("" = none)
    pl_pickled,        \* TRUE once _train has written the pickled pipeline
    pl_written,        \* the output files written so far
    pl_entry,          \* the last call: its name and whether the 'type' column of
                       \* its input table has a missing value
    \* ---- aggregate_probabilities
    ag_table,          \* the table handed to the last call (or to the next one)
    ag_results,        \* the table the last call returned
    ag_calls,          \* calls of aggregate_probabilities made so far
    \* ---- make_confusion_matrix
    cm_results,        \* the results table of the caller
    cm_args,           \* the arguments of the last call
    cm_out,            \* what the last call computed
    \* ---- plot_confusion_matrix
    pt_matrix,         \* the confusion_matrix argument: a square matrix of counts
    pt_out,            \* what the last call computed
    \* ---- extract_features (extract.py): the extinction ratios of the filters
    ef_filters,        \* the filters argument
    ef_R_filters,      \* the R_filters argument: None, or a dict filter -> ratio
    ef_out,            \* what the last call did
    \* ---- select_good_events (extract.py)
    sg_t,              \* the table t: one row per draw, the draws of an event in a row
    sg_data,           \* the data array: for each row of t, its values
    sg_ndraws,         \* t.meta['ndraws']
    sg_out             \* what the last call returned

vc_vars == <<train_data, test_data, test_is_None, aggregate, pipeline, probabilities,
             vc_pc, vc_i, vc_refits, vc_refit_failed, vc_error, vc_result, vc_caller>>

mg_vars == <<X, y, samples_per_class, random_state, sampling_strategy_, mean_, cov_,
             rs_, mg_calls, mg_fit, nan_raises, ret>>

pl_vars == <<pl_args, pl_steps, pl_log, pl_error, pl_pickled, pl_written, pl_entry>>

ag_vars == <<ag_table, ag_results, ag_calls>>

cm_vars == <<cm_results, cm_args, cm_out>>

pt_vars == <<pt_matrix, pt_out>>

ef_vars == <<ef_filters, ef_R_filters, ef_out>>

sg_vars == <<sg_t, sg_data, sg_ndraws, sg_out>>

vars == <<vc_vars, mg_vars, pl_vars, ag_vars, cm_vars, pt_vars, ef_vars, sg_vars>>

\* What the steps of one component leave alone: the other components.
vc_frame == <<mg_vars, pl_vars, ag_vars, cm_vars, pt_vars, ef_vars, sg_vars>>
mg_frame == <<vc_vars, pl_vars, ag_vars, cm_vars, pt_vars, ef_vars, sg_vars>>
pl_frame == <<vc_vars, mg_vars, ag_vars, cm_vars, pt_vars, ef_vars, sg_vars>>
ag_frame == <<vc_vars, mg_vars, pl_vars, cm_vars, pt_vars, ef_vars, sg_vars>>
cm_frame == <<vc_vars, mg_vars, pl_vars, ag_vars, pt_vars, ef_vars, sg_vars>>
pt_frame == <<vc_vars, mg_vars, pl_vars, ag_vars, cm_vars, ef_vars, sg_vars>>
ef_frame == <<vc_vars, mg_vars, pl_vars, ag_vars, cm_vars, pt_vars, sg_vars>>
sg_frame == <<vc_vars, mg_vars, pl_vars, ag_vars, cm_vars, pt_vars, ef_vars>>

\* No pipeline has been built.
pl_idle ==
    /\ pl_args = [classifier |-> "rf", sampler |-> "mvg"]
    /\ pl_steps = <<>>
    /\ pl_log = <<>>
    /\ pl_error = ""
    /\ pl_pickled = FALSE
    /\ pl_written = {}
    /\ pl_entry = [name |-> "", masked |-> FALSE]

\* aggregate_probabilities has not been called.
ag_idle ==
    /\ ag_table = <<>>
    /\ ag_results = <<>>
    /\ ag_calls = 0

\* What make_confusion_matrix computes: the rows it tabulates (positions in the
\* caller's table), their true and predicted labels, the labels and cells of
\* the matrix, the class list handed to the plot, and the statistics of the
\* title.
cm_nothing ==
    [called |-> FALSE, raised |-> "", tabulated |-> <<>>, y_true |-> <<>>, y_pred |-> <<>>,
     labels |-> <<>>, cnf_matrix |-> <<>>, classes |-> <<>>, stats |-> FALSE, N |-> 0,
     accuracy |-> <<0, 0>>, f1_args |-> <<>>]

\* make_confusion_matrix has not been called.
cm_idle ==
    /\ cm_results = <<>>
    /\ cm_args = [classes_given |-> FALSE, classes |-> <<>>, p_min |-> <<0, 1>>,
                  binary |-> FALSE]
    /\ cm_out = cm_nothing


\* What plot_confusion_matrix computes before drawing: the totals per true and
\* per predicted class, the normalised matrix and the colour threshold.
pt_nothing ==
    [called |-> FALSE, purity |-> FALSE, n_per_true_class |-> <<>>, n_per_pred_class |-> <<>>,
     cm |-> <<>>, thresh |-> <<0, 0>>]

\* plot_confusion_matrix has not been called.
pt_idle ==
    /\ pt_matrix = <<>>
    /\ pt_out = pt_nothing


\* What extract_features has done when it leaves the loop over the filters:
\* the exception raised ("" = none), the list R_filter and whether any trace
\* has been loaded.
ef_nothing == [called |-> FALSE, raised |-> "", R_filter |-> <<>>, trace_loaded |-> FALSE]

\* extract_features has not been called.
ef_idle ==
    /\ ef_filters = <<>>
    /\ ef_R_filters = [given |-> FALSE, dict |-> <<>>]
    /\ ef_out = ef_nothing


\* What select_good_events returns, with the boolean index it selected by.
sg_nothing == [called |-> FALSE, mask |-> <<>>, t_good |-> <<>>, good_data |-> <<>>]

\* select_good_events has not been called.
sg_idle ==
    /\ sg_t = <<>>
    /\ sg_data = <<>>
    /\ sg_ndraws = 1
    /\ sg_out = sg_nothing

-----------------------------------------------------------------------------
(* Bounds *)
MaxTrain == 3
MaxTest == 2
MaxN == 5          \* rows of X
MaxK == 3          \* largest integer sampling_strategy
MaxMore == 2       \* largest n of more_samples(n)
MaxCalls == 2      \* calls made on one resampler instance
MaxPipelineCalls == 3   \* calls made on one pipeline
MaxRows == 3       \* rows of a table handed to aggregate_probabilities
MaxAggregations == 2    \* successive calls of aggregate_probabilities
MaxCmRows == 2     \* rows of a table handed to make_confusion_matrix
MaxPlotClasses == 2     \* rows and columns of a matrix handed to plot_confusion_matrix
MaxCount == 2      \* largest cell of such a matrix
MaxFilters == 2    \* filters requested from extract_features
MaxEvents == 2     \* events of a table handed to select_good_events
MaxDraws == 2      \* draws per event (t.meta['ndraws'])

\* Values of the grouping key and of the label, in sorted order.
Filenames == <<"a", "b", "c">>
Types == <<"SNII", "SNIa">>

Range(s) == {s[k] : k \in DOMAIN s}
SeqsUpTo(S, n) == UNION {[1..k -> S] : k \in 0..n}

\* One row of a data table: its grouping key and its label.
Rows == [filename : Range(Filenames), type : Range(Types)]

\* train_data['filename'] != filename / test_data['filename'] == filename:
\* a boolean mask over the rows of a table.
MaskNe(table, filename) == [k \in DOMAIN table |-> table[k].filename # filename]
MaskEq(table, filename) == [k \in DOMAIN table |-> table[k].filename = filename]

\* table[mask]: the rows selected by a boolean mask, in order.
RECURSIVE Select(_, _)
Select(table, mask) ==
    IF Len(table) = 0 THEN <<>>
    ELSE LET n == Len(table)
             front == Select(SubSeq(table, 1, n - 1), SubSeq(mask, 1, n - 1))
         IN  IF mask[n] THEN Append(front, table[n]) ELSE front

count_nonzero(mask) == Cardinality({k \in DOMAIN mask : mask[k]})

\* features.reshape(n, -1): numpy cannot infer the -1 axis of an array with no
\* rows and raises ValueError.
reshape_raises(n) == n = 0

\* pipeline.fit(X, y): the pipeline becomes the fit on that table.
pipeline_fit(table) == [origin |-> "fit", fitted_on |-> table]

\* pipeline.predict_proba(X): one probability vector per row, each produced by
\* the current fit.
predict_proba(pl, n) == [k \in 1..n |-> pl]

\* train_classifier(pipeline, train_data), called with the positional arguments
\* `args`.  Python raises TypeError when the call does not supply both
\* parameters; train_data['features'].reshape(len(train_data), -1) raises
\* ValueError on a table with no rows; otherwise the pipeline is fitted in place.
train_classifier(args) ==
    IF Len(args) # 2 THEN [raised |-> "TypeError", pipeline |-> <<>>]
    ELSE IF reshape_raises(Len(args[2])) THEN [raised |-> "ValueError", pipeline |-> <<>>]
    ELSE [raised |-> "", pipeline |-> pipeline_fit(args[2])]

\* Exact fractions <<numerator, denominator>> in lowest terms; 0/0 is
\* not-a-number.
RECURSIVE gcd(_, _)
gcd(a, b) == IF b = 0 THEN a ELSE gcd(b, a % b)

fraction(num, den) ==
    IF den = 0 THEN <<0, 0>> ELSE <<num \div gcd(num, den), den \div gcd(num, den)>>

frac_add(a, b) == fraction(a[1] * b[2] + b[1] * a[2], a[2] * b[2])

\* x.sum(axis=0): the element-wise sum of the vectors of x.
RECURSIVE sum_axis0(_)
sum_axis0(x) ==
    IF Len(x) = 1 THEN x[1]
    ELSE LET rest == sum_axis0(Tail(x))
         IN  [j \in DOMAIN x[1] |-> frac_add(x[1][j], rest[j])]

\* A reduction that keeps the first vector of the group.
first_axis0(x) == x[1]

\* mean_axis0(x) = x.mean(axis=0): the element-wise mean of the probability
\* vectors of one group.
mean_axis0(x) ==
    LET total == sum_axis0(x)
    IN  [j \in DOMAIN total |-> fraction(total[j][1], total[j][2] * Len(x))]

\* The table test_data with its 'probabilities' column.
with_probabilities(table, column) ==
    [k \in DOMAIN table |->
        [filename |-> table[k].filename, type |-> table[k].type, mask |-> FALSE,
         probabilities |-> column[k]]]

\* The fill value of a masked string entry, and the values a filled 'type'
\* column holds, in sorted order.
fill_value == "N/A"
FilledTypes == <<fill_value>> \o Types

\* table.filled(): every masked entry is replaced by the fill value and the
\* table no longer carries a mask.
filled(table) ==
    [k \in DOMAIN table |->
        [filename |-> table[k].filename,
         type |-> IF table[k].mask THEN fill_value ELSE table[k].type,
         probabilities |-> table[k].probabilities]]

\* Every (filename, type) tuple, in the sorted order group_by puts groups in.
AllKeys ==
    [k \in 1..(Len(Filenames) * Len(FilledTypes)) |->
        [filename |-> Filenames[((k - 1) \div Len(FilledTypes)) + 1],
         type |-> FilledTypes[((k - 1) % Len(FilledTypes)) + 1]]]

\* np.ma.array(column): a masked array built from plain data masks nothing.
ma_array(value) == [type |-> value, mask |-> FALSE]

\* aggregate_probabilities(table): the filled table is grouped by its metadata
\* columns (one group per distinct tuple, sorted by it), each group is reduced
\* to the mean of its probability vectors, and the 'type' column of the result
\* is wrapped in a masked array.
aggregate_probabilities(table) ==
    LET grouped == filled(table)
        member(key) == [k \in DOMAIN grouped |->
                            /\ grouped[k].filename = key.filename
                            /\ grouped[k].type = key.type]
        present == [k \in DOMAIN AllKeys |-> count_nonzero(member(AllKeys[k])) > 0]
        keys == Select(AllKeys, present)
        probs(rows) == [k \in DOMAIN rows |-> rows[k].probabilities]
    IN  [g \in DOMAIN keys |->
            [filename |-> keys[g].filename,
             type |-> ma_array(keys[g].type).type,
             mask |-> ma_array(keys[g].type).mask,
             probabilities |-> mean_axis0(probs(Select(grouped, member(keys[g]))))]]

\* A baseline that predicts with the pipeline as it was loaded, never fitting
\* it on the training set.
baseline_fit_skipped(pl, table) == [raised |-> "", pipeline |-> pl]

\* Line 230: train_classifier(pipeline, train_data), the fit on the entire
\* training set.
baseline_fit(pl, table) == train_classifier(<<pl, table>>)

\* The positional arguments of the train_classifier call inside the loop.
fold_train_args(pl, table) == <<table>>

\* A loop that catches the exception of an iteration and goes on to the next.
after_fold_error_swallowed(i) == [pc |-> "loop", i |-> i + 1]

\* An exception raised inside the loop is not caught: it leaves
\* validate_classifier at the iteration that raised.
after_fold_error(i) == [pc |-> "raised", i |-> i]

\* probabilities[test_index] = new: overwrite the rows selected by the mask.
RECURSIVE assign_masked(_, _, _)
assign_masked(column, mask, new) ==
    IF Len(column) = 0 THEN <<>>
    ELSE LET n == Len(column)
         IN  IF mask[n]
             THEN Append(assign_masked(SubSeq(column, 1, n - 1), SubSeq(mask, 1, n - 1),
                                       SubSeq(new, 1, Len(new) - 1)),
                         new[Len(new)])
             ELSE Append(assign_masked(SubSeq(column, 1, n - 1), SubSeq(mask, 1, n - 1), new),
                         column[n])

\* A table object without a 'probabilities' column.
no_column == [has |-> FALSE, column |-> <<>>]

\* A local name bound to a copy of the argument, an object the caller does
\* not hold.
copied_table(is_None) == "copy"

\* Lines 228-229: the object the local name test_data denotes, the caller's
\* test_data or, when that is None, the caller's train_data itself.
denoted_table(is_None) == IF is_None THEN "train_data" ELSE "test_data"

\* table['probabilities'] = column: the column is set on the object itself.
setitem(tables, object, column) ==
    [o \in DOMAIN tables |-> IF o = object THEN [has |-> TRUE, column |-> column]
                                           ELSE tables[o]]

-----------------------------------------------------------------------------
(* MultivariateGaussian *)

\* Class labels, in sorted order.
Classes == <<"A", "B", "C">>

\* A row of the caller's feature matrix.
data_row(v) == [kind |-> "data", v |-> v]

\* A dict that keeps the value a key already has.
dict_setdefault(d, key, val) ==
    [k \in DOMAIN d \cup {key} |-> IF k \in DOMAIN d THEN d[k] ELSE val]

\* A dict with d[key] = val set.
dict_set(d, key, val) == [k \in DOMAIN d \cup {key} |-> IF k = key THEN val ELSE d[k]]

\* Lines 97-105 (__init__): mean_ and cov_ are empty dicts; sampling_strategy_
\* and rs_ are attributes the constructor does not set.
mg_constructed ==
    /\ sampling_strategy_ = <<>>
    /\ mean_ = <<>>
    /\ cov_ = <<>>
    /\ rs_ = <<>>
    /\ mg_calls = 0
    /\ mg_fit = "never"
    /\ ret = [op |-> "", raised |-> "", n |-> 0, X |-> <<>>, y |-> <<>>]

-----------------------------------------------------------------------------
(* validate_classifier *)

\* Lines 228-231: alias test_data, fit on the entire training set, predict
\* every test row (the baseline).
ValidateBaseline ==
    /\ vc_pc = "start"
    /\ LET td == IF test_is_None THEN train_data ELSE test_data
           fit == baseline_fit(pipeline, train_data)
       IN  /\ test_data' = td
           /\ IF fit.raised # ""
              THEN /\ vc_pc' = "raised"
                   /\ vc_error' = fit.raised
                   /\ UNCHANGED <<pipeline, probabilities, vc_i, vc_caller>>
              ELSE /\ pipeline' = fit.pipeline
                   /\ IF reshape_raises(Len(td))
                      THEN /\ vc_pc' = "raised"
                           /\ vc_error' = "ValueError"
                           /\ UNCHANGED <<probabilities, vc_i, vc_caller>>
                      ELSE /\ probabilities' = predict_proba(fit.pipeline, Len(td))
                           /\ vc_caller' = setitem(vc_caller, denoted_table(test_is_None),
                                                   predict_proba(fit.pipeline, Len(td)))
                           /\ vc_pc' = "loop"
                           /\ vc_i' = 1
                           /\ UNCHANGED vc_error
    /\ UNCHANGED <<train_data, test_is_None, aggregate, vc_refits, vc_refit_failed, vc_result>>
    /\ UNCHANGED vc_frame

\* Lines 232-240: one iteration of the loop over train_data['filename'], or,
\* when the column is exhausted, the aggregation and the return.
ValidateLoop ==
    /\ vc_pc = "loop"
    /\ IF vc_i <= Len(train_data)
       THEN LET filename == train_data[vc_i].filename
                train_index == MaskNe(train_data, filename)
                test_index == MaskEq(test_data, filename)
                fit == train_classifier(fold_train_args(pipeline, Select(train_data, train_index)))
                n == count_nonzero(test_index)
                failed == fit.raised # "" \/ reshape_raises(n)
                after == after_fold_error(vc_i)
            IN  /\ pipeline' = IF fit.raised = "" THEN fit.pipeline ELSE pipeline
                /\ vc_refits' = IF fit.raised = "" THEN vc_refits + 1 ELSE vc_refits
                /\ vc_refit_failed' = (vc_refit_failed \/ failed)
                /\ IF failed
                   THEN /\ vc_pc' = after.pc
                        /\ vc_i' = after.i
                        /\ vc_error' = IF fit.raised # "" THEN fit.raised ELSE "ValueError"
                        /\ UNCHANGED <<probabilities, vc_caller>>
                   ELSE /\ probabilities' =
                                assign_masked(probabilities, test_index,
                                              predict_proba(fit.pipeline, n))
                        /\ vc_caller' =
                                setitem(vc_caller, denoted_table(test_is_None),
                                        assign_masked(probabilities, test_index,
                                                      predict_proba(fit.pipeline, n)))
                        /\ vc_i' = vc_i + 1
                        /\ UNCHANGED <<vc_pc, vc_error>>
                /\ UNCHANGED vc_result
       ELSE /\ vc_result' = IF aggregate
                            THEN aggregate_probabilities(with_probabilities(test_data, probabilities))
                            ELSE with_probabilities(test_data, probabilities)
            /\ vc_pc' = "returned"
            /\ UNCHANGED <<pipeline, probabilities, vc_i, vc_refits, vc_refit_failed, vc_error,
                           vc_caller>>
    /\ UNCHANGED <<train_data, test_data, test_is_None, aggregate>>
    /\ UNCHANGED vc_frame

\* The pipeline _validate unpickles: fitted earlier, on data outside the model.
pickled_pipeline == [origin |-> "pickle", fitted_on |-> <<>>]

InitValidate ==
    /\ train_data \in SeqsUpTo(Rows, MaxTrain)
    /\ test_is_None \in BOOLEAN
    /\ test_data \in IF test_is_None THEN {<<>>} ELSE SeqsUpTo(Rows, MaxTest)
    /\ aggregate \in BOOLEAN
    /\ pipeline = pickled_pipeline
    /\ probabilities = <<>>
    /\ vc_pc = "start"
    /\ vc_i = 0
    /\ vc_refits = 0
    /\ vc_refit_failed = FALSE
    /\ vc_error = ""
    /\ vc_result = <<>>
    /\ vc_caller = [train_data |-> no_column, test_data |-> no_column]
    /\ mg_constructed
    /\ X = <<>>
    /\ y = <<>>
    /\ samples_per_class = <<>>
    /\ random_state = <<>>
    /\ nan_raises = TRUE
    /\ pl_idle
    /\ ag_idle
    /\ cm_idle
    /\ pt_idle
    /\ ef_idle
    /\ sg_idle

NextValidate == ValidateBaseline \/ ValidateLoop

SpecValidate == InitValidate /\ [][NextValidate]_vars

-----------------------------------------------------------------------------
(* Properties of validate_classifier *)

\* validate_classifier is over: it returned or an exception left it.
vc_over == vc_pc \in {"returned", "raised"}

\* The group keys present in the training set.
train_filenames == {train_data[k].filename : k \in DOMAIN train_data}

\* Row i of test_data carries probabilities predicted by a fit none of whose
\* training rows shares the row's group key.
out_of_fold(i) ==
    /\ probabilities[i].origin = "fit"
    /\ \A k \in DOMAIN probabilities[i].fitted_on :
            probabilities[i].fitted_on[k].filename # test_data[i].filename

\* C1: once validate_classifier is over on a non-empty training set, every
\* evaluation row whose group key appears in the training set carries
\* probabilities predicted by a fit that excluded every row of that group.
C1_OutOfFoldExcludesGroup ==
    (vc_over /\ Len(train_data) > 0 /\ probabilities # <<>>) =>
        \A i \in DOMAIN test_data :
            test_data[i].filename \in train_filenames => out_of_fold(i)

\* C2: once validate_classifier is over, and the baseline was predicted, the
\* loop has refitted the pipeline once per distinct group key of the training
\* set.
C2_OneRefitPerGroup ==
    (vc_over /\ probabilities # <<>>) => vc_refits = Cardinality(train_filenames)

\* C3: an evaluation row whose group key never appears in the training set
\* carries, from the baseline prediction on, exactly the probabilities of the
\* fit on the entire training set: no loop iteration overwrites it.
C3_UnseenGroupKeepsBaseline ==
    probabilities # <<>> =>
        \A i \in DOMAIN test_data :
            test_data[i].filename \notin train_filenames =>
                probabilities[i] = pipeline_fit(train_data)

\* C3 witness: the loop has run and validate_classifier is over, with an
\* evaluation row of a group the training set does not have.
C3_Witness ==
    /\ vc_over
    /\ vc_i >= 1
    /\ probabilities # <<>>
    /\ \E i \in DOMAIN test_data : test_data[i].filename \notin train_filenames

\* C4: when a refit (or its prediction) inside the loop fails, validation
\* aborts with that error: nothing is returned, no aggregation is made and no
\* further step (no remaining group) is taken.
C4_RefitFailureAborts ==
    vc_refit_failed =>
        /\ vc_pc = "raised"
        /\ vc_error \in {"TypeError", "ValueError"}
        /\ vc_result = <<>>
        /\ ~ENABLED NextValidate

\* C4 witness: a refit failed while rows of another group were still to come.
C4_Witness ==
    /\ vc_refit_failed
    /\ vc_pc = "raised"
    /\ \E k \in DOMAIN train_data :
            k > vc_i /\ train_data[k].filename # train_data[vc_i].filename

-----------------------------------------------------------------------------
(* MultivariateGaussian: fit_resample and more_samples *)

is_nan(f) == f[2] = 0

RECURSIVE sum_v(_)
sum_v(rows) == IF Len(rows) = 0 THEN 0 ELSE Head(rows).v + sum_v(Tail(rows))

RECURSIVE sum_v2(_)
sum_v2(rows) == IF Len(rows) = 0 THEN 0 ELSE Head(rows).v * Head(rows).v + sum_v2(Tail(rows))

\* np.mean(X_class, axis=0)
np_mean(X_class) == fraction(sum_v(X_class), Len(X_class))

\* np.cov(X_class, rowvar=False): the unbiased estimate, not-a-number for a
\* class with a single row.
np_cov(X_class) ==
    LET n == Len(X_class)
    IN  fraction(n * sum_v2(X_class) - sum_v(X_class) * sum_v(X_class), n * (n - 1))

\* np.unique(y): the labels present, sorted.
unique(labels) ==
    Select(Classes, [k \in DOMAIN Classes |-> \E i \in DOMAIN labels : labels[i] = Classes[k]])

\* sorted(d.keys())
sorted_keys(d) == Select(Classes, [k \in DOMAIN Classes |-> Classes[k] \in DOMAIN d])

class_count(labels, c) == Cardinality({i \in DOMAIN labels : labels[i] = c})

\* X[y == class_sample]
rows_of_class(features, labels, c) ==
    Select(features, [k \in DOMAIN labels |-> labels[k] = c])

\* self.fit(X, y) with sampling_strategy='all': check_X_y rejects an empty
\* input and check_sampling_strategy a target with fewer than two classes.
fit_raises(labels) == Len(labels) = 0 \/ Len(unique(labels)) <= 1

\* sampling_strategy_ for 'minority': only the smallest class is topped up.
sampling_strategy_minority(labels) ==
    LET present == Range(unique(labels))
        counts == {class_count(labels, c) : c \in present}
        majority == CHOOSE m \in counts : \A n \in counts : n <= m
        minority == CHOOSE c \in present : \A d \in present :
                        class_count(labels, c) <= class_count(labels, d)
    IN  [c \in {minority} |-> majority - class_count(labels, c)]

\* sampling_strategy_ for 'all' over-sampling: every class -> the number of
\* rows it lacks to the largest class.
sampling_strategy_all(labels) ==
    LET counts == {class_count(labels, c) : c \in Range(unique(labels))}
        majority == CHOOSE m \in counts : \A n \in counts : n <= m
    IN  [c \in Range(unique(labels)) |-> majority - class_count(labels, c)]

\* check_random_state(self.random_state): a new generator seeded with an int
\* seed; for None the process-wide generator (seed 0 here), which keeps the
\* position earlier draws left it at.
global_seed == 0

\* The process-wide generator as the instance finds it, and as an instance in
\* another run may find it.
np_random == [seed |-> global_seed, pos |-> 0]
np_random_elsewhere == [seed |-> global_seed, pos |-> 5]

\* A generator created once and kept: later calls continue the stream.
check_random_state_once(seed, current, global) ==
    IF current # <<>> THEN current[1]
    ELSE IF seed # <<>> THEN [seed |-> seed[1], pos |-> 0]
    ELSE global

\* A check_random_state that ignores the seed.
check_random_state_unseeded(seed, current, global) ==
    IF current # <<>> THEN current[1] ELSE global

check_random_state(seed, current, global) ==
    IF seed # <<>> THEN [seed |-> seed[1], pos |-> 0]
    ELSE IF current # <<>> THEN current[1]
    ELSE global

\* rs.multivariate_normal(mean, cov, n): n rows, each a function of the
\* distribution and of the generator's state when it is drawn.
multivariate_normal(rs, mean, cov, n) ==
    [j \in 1..n |-> [kind |-> "mvn", mean |-> mean, cov |-> cov,
                     seed |-> rs.seed, at |-> rs.pos + j]]

\* The generator after n rows were drawn from it.
advance(rs, n) == [rs EXCEPT !.pos = @ + n]

\* np.repeat(class_sample, n)
repeat(c, n) == [j \in 1..n |-> c]

\* np.repeat(classes, n): every element n times, in order.
repeat_each(a, n) == [j \in 1..(Len(a) * n) |-> a[((j - 1) \div n) + 1]]

\* The rows put in front of the rows so far.
stack_in_front(resampled, new) == new \o resampled

\* np.vstack((X_resampled, X_new)) / np.hstack((y_resampled, y_new)): a new
\* array, the rows so far followed by the new ones.
stack(resampled, new) == resampled \o new

\* A result built in the caller's own array.
caller_array_in_place(argument, resampled) == resampled

\* The caller's array after a call: X_resampled and y_resampled are copies
\* (lines 110-111) and vstack/hstack build new arrays, so the argument is as
\* it was.
caller_array(argument, resampled) == argument

\* The int sampling_strategy forgotten: every class topped up to the majority.
rows_to_add_balanced(strategy, class_sample, have) == strategy[class_sample]

\* The rows a class is to receive (lines 113, 117-118).
rows_to_add(strategy, class_sample, have) ==
    IF samples_per_class # <<>> THEN samples_per_class[1] - have ELSE strategy[class_sample]

\* Lines 113-127: the loop of _fit_resample over sampling_strategy_.items(), in
\* sorted class order.  st carries self.mean_, self.cov_, self.rs_ and the
\* arrays being built.  Drawing with a not-a-number covariance either raises
\* LinAlgError or returns rows, depending on the linear-algebra build
\* (nan_raises).
RECURSIVE fit_resample_loop(_, _, _)
fit_resample_loop(st, todo, strategy) ==
    IF Len(todo) = 0 THEN st
    ELSE LET class_sample == Head(todo)
             X_class == rows_of_class(X, y, class_sample)
             mean == np_mean(X_class)
             cov == np_cov(X_class)
             n_samples == rows_to_add(strategy, class_sample, Len(X_class))
             st1 == [st EXCEPT !.mean_ = dict_set(@, class_sample, mean),
                               !.cov_ = dict_set(@, class_sample, cov)]
             rs == check_random_state(random_state, st.rs_, st.np_random)
         IN  IF n_samples <= 0 THEN fit_resample_loop(st1, Tail(todo), strategy)
             ELSE IF is_nan(cov) /\ nan_raises
                  THEN [st1 EXCEPT !.rs_ = <<rs>>, !.raised = "LinAlgError"]
             ELSE fit_resample_loop(
                      [st1 EXCEPT !.rs_ = <<advance(rs, n_samples)>>,
                                  !.X = stack(@, multivariate_normal(rs, mean, cov, n_samples)),
                                  !.y = stack(@, repeat(class_sample, n_samples))],
                      Tail(todo), strategy)

\* Lines 135-138: the draws of more_samples over the sorted classes.
RECURSIVE more_samples_loop(_, _, _)
more_samples_loop(st, todo, n_samples) ==
    IF Len(todo) = 0 THEN st
    ELSE LET class_sample == Head(todo)
         IN  IF st.rs_ = <<>> THEN [st EXCEPT !.raised = "AttributeError"]
             ELSE IF class_sample \notin DOMAIN mean_ THEN [st EXCEPT !.raised = "KeyError"]
             ELSE IF is_nan(cov_[class_sample]) /\ nan_raises
                  THEN [st EXCEPT !.raised = "LinAlgError"]
             ELSE more_samples_loop(
                      [st EXCEPT !.rs_ = <<advance(st.rs_[1], n_samples)>>,
                                 !.X = stack(@, multivariate_normal(st.rs_[1], mean_[class_sample],
                                                                    cov_[class_sample], n_samples))],
                      Tail(todo), n_samples)

\* more_samples without its guard.
more_samples_unguarded == FALSE

\* Line 133: the guard of more_samples.
more_samples_unfitted == DOMAIN mean_ = {} \/ DOMAIN cov_ = {}

\* fit_resample(X, y) on the caller's arrays.
FitResample ==
    /\ mg_calls < MaxCalls
    /\ mg_calls' = mg_calls + 1
    /\ IF fit_raises(y)
       THEN /\ ret' = [op |-> "fit_resample", raised |-> "ValueError", n |-> 0,
                       X |-> <<>>, y |-> <<>>]
            /\ mg_fit' = IF mg_fit = "never" THEN "called" ELSE mg_fit
            /\ UNCHANGED <<sampling_strategy_, mean_, cov_, rs_, X, y>>
       ELSE \E strategy \in {sampling_strategy_all(y)} :
            \E st \in {fit_resample_loop(
                          [mean_ |-> mean_, cov_ |-> cov_, rs_ |-> rs_, raised |-> "",
                           X |-> X, y |-> y, np_random |-> np_random],
                          sorted_keys(strategy), strategy)} :
                /\ sampling_strategy_' = strategy
                /\ mean_' = st.mean_
                /\ cov_' = st.cov_
                /\ rs_' = st.rs_
                /\ mg_fit' = IF st.raised = "" THEN "completed"
                             ELSE IF mg_fit = "never" THEN "called" ELSE mg_fit
                /\ X' = caller_array(X, st.X)
                /\ y' = caller_array(y, st.y)
                /\ ret' = IF st.raised # ""
                          THEN [op |-> "fit_resample", raised |-> st.raised, n |-> 0,
                                X |-> <<>>, y |-> <<>>]
                          ELSE [op |-> "fit_resample", raised |-> "", n |-> 0,
                                X |-> st.X, y |-> st.y]
    /\ UNCHANGED <<samples_per_class, random_state, nan_raises>>
    /\ UNCHANGED mg_frame

\* more_samples(n_samples)
MoreSamples ==
    /\ mg_calls < MaxCalls
    /\ mg_calls' = mg_calls + 1
    /\ \E n_samples \in 1..MaxMore :
       IF more_samples_unfitted
       THEN /\ ret' = [op |-> "more_samples", raised |-> "Exception", n |-> n_samples,
                       X |-> <<>>, y |-> <<>>]
            /\ UNCHANGED rs_
       ELSE IF DOMAIN sampling_strategy_ = {}
       THEN /\ ret' = [op |-> "more_samples", raised |-> "AttributeError", n |-> n_samples,
                       X |-> <<>>, y |-> <<>>]
            /\ UNCHANGED rs_
       ELSE \E classes \in {sorted_keys(sampling_strategy_)} :
            \E st \in {more_samples_loop([rs_ |-> rs_, raised |-> "", X |-> <<>>],
                                         classes, n_samples)} :
            LET labels == repeat_each(classes, n_samples)
            IN  /\ rs_' = st.rs_
                /\ ret' = IF st.raised # ""
                          THEN [op |-> "more_samples", raised |-> st.raised, n |-> n_samples,
                                X |-> <<>>, y |-> <<>>]
                          ELSE [op |-> "more_samples", raised |-> "", n |-> n_samples,
                                X |-> st.X, y |-> labels]
    /\ UNCHANGED <<X, y, samples_per_class, random_state, sampling_strategy_, mean_, cov_,
                   mg_fit, nan_raises>>
    /\ UNCHANGED mg_frame

\* validate_classifier is not running.
vc_idle ==
    /\ train_data = <<>>
    /\ test_data = <<>>
    /\ test_is_None = FALSE
    /\ aggregate = FALSE
    /\ pipeline = pickled_pipeline
    /\ probabilities = <<>>
    /\ vc_pc = "idle"
    /\ vc_i = 0
    /\ vc_refits = 0
    /\ vc_refit_failed = FALSE
    /\ vc_error = ""
    /\ vc_result = <<>>
    /\ vc_caller = [train_data |-> [has |-> FALSE, column |-> <<>>],
                    test_data |-> [has |-> FALSE, column |-> <<>>]]

\* A caller's (X, y) of up to MaxN rows and a newly constructed resampler with
\* sampling_strategy 'all' or an int, and random_state None or an int seed.
Seeds == {7}

InitResampler ==
    /\ y \in SeqsUpTo(Range(Classes), MaxN)
    /\ X = [i \in DOMAIN y |-> data_row(i)]
    /\ samples_per_class \in {<<>>} \cup {<<k>> : k \in 1..MaxK}
    /\ random_state \in {<<>>} \cup {<<s>> : s \in Seeds}
    /\ nan_raises \in BOOLEAN
    /\ mg_constructed
    /\ vc_idle
    /\ pl_idle
    /\ ag_idle
    /\ cm_idle
    /\ pt_idle
    /\ ef_idle
    /\ sg_idle

NextResampler == FitResample \/ MoreSamples

SpecResampler == InitResampler /\ [][NextResampler]_vars

-----------------------------------------------------------------------------
(* Properties of MultivariateGaussian *)

\* The last call returned (raised nothing).
returned(op) == ret.op = op /\ ret.raised = ""

\* C5: more_samples on a resampler on which fit_resample was never called
\* raises the 'Mean and covariance not set' Exception and returns no samples
\* (and draws nothing from a generator).
C5_UnfittedMoreSamplesRaises ==
    (ret.op = "more_samples" /\ mg_fit = "never") =>
        /\ ret.raised = "Exception"
        /\ ret.X = <<>>
        /\ ret.y = <<>>
        /\ rs_ = <<>>

\* C5 witness: more_samples was called before any fit_resample.
C5_Witness == ret.op = "more_samples" /\ mg_fit = "never" /\ ret.n = MaxMore

\* C6: on a resampler on which fit_resample has completed, more_samples(n)
\* succeeds and returns n rows for each class seen at fit, the labels being the
\* sorted classes, each repeated n times.
C6_MoreSamplesAfterFit ==
    (ret.op = "more_samples" /\ mg_fit = "completed") =>
        /\ ret.raised = ""
        /\ Len(ret.X) = ret.n * Len(unique(y))
        /\ ret.y = repeat_each(unique(y), ret.n)

\* C7: fit_resample with an int sampling_strategy k returns, for every class c
\* of original count m, k rows of c when m < k and m rows (not trimmed) when
\* m >= k.
C7_IntStrategyCounts ==
    (returned("fit_resample") /\ samples_per_class # <<>>) =>
        /\ Len(ret.X) = Len(ret.y)
        /\ \A c \in Range(Classes) :
            LET m == class_count(y, c)
                k == samples_per_class[1]
            IN  class_count(ret.y, c) = IF c \in Range(unique(y)) /\ m < k THEN k ELSE m

\* C7 witness: fit_resample returned with a class below k that had a proper
\* covariance and a class at or above k.
C7_Witness ==
    /\ returned("fit_resample")
    /\ samples_per_class # <<>>
    /\ \E c \in Range(Classes) :
            class_count(y, c) >= 2 /\ class_count(y, c) < samples_per_class[1]
    /\ \E c \in Range(Classes) : class_count(y, c) >= samples_per_class[1]

\* The largest class count of a label vector.
majority_count(labels) ==
    CHOOSE m \in {class_count(labels, c) : c \in Range(Classes)} :
        \A c \in Range(Classes) : class_count(labels, c) <= m

\* C8: fit_resample with sampling_strategy='all' returns every class with the
\* same count, the largest original class count, and no class with fewer rows
\* than it had.
C8_AllStrategyBalances ==
    (returned("fit_resample") /\ samples_per_class = <<>>) =>
        /\ Len(ret.X) = Len(ret.y)
        /\ \A c \in Range(unique(y)) :
            /\ class_count(ret.y, c) = majority_count(y)
            /\ class_count(ret.y, c) >= class_count(y, c)
        /\ \A c \in Range(Classes) \ Range(unique(y)) : class_count(ret.y, c) = 0

\* C8 witness: fit_resample returned under 'all' on classes of different
\* sizes, one of them smaller than the majority with a proper covariance.
C8_Witness ==
    /\ returned("fit_resample")
    /\ samples_per_class = <<>>
    /\ Len(ret.y) > Len(y)
    /\ \E c \in Range(Classes) :
            class_count(y, c) >= 2 /\ class_count(y, c) < majority_count(y)

\* C9: fit_resample returns the original rows and labels, in their order, as
\* the first n rows, and after them synthetic rows only, each labelled with the
\* class from whose mean and covariance it was drawn.
C9_OriginalsFirstThenSynthetic ==
    returned("fit_resample") =>
        /\ Len(ret.X) >= Len(X)
        /\ Len(ret.y) = Len(ret.X)
        /\ SubSeq(ret.X, 1, Len(X)) = X
        /\ SubSeq(ret.y, 1, Len(y)) = y
        /\ \A j \in (Len(X) + 1)..Len(ret.X) :
            /\ ret.X[j].kind = "mvn"
            /\ ret.y[j] \in DOMAIN mean_
            /\ ret.X[j].mean = mean_[ret.y[j]]
            /\ ret.X[j].cov = cov_[ret.y[j]]

\* C9 witness: the scenario scaled down, counts {A: 3, C: 2} topped up to 3 per
\* class, C's 2 original rows staying among C's 3.
C9_Witness ==
    /\ returned("fit_resample")
    /\ samples_per_class = <<3>>
    /\ class_count(y, "A") = 3 /\ class_count(y, "C") = 2
    /\ class_count(ret.y, "A") = 3 /\ class_count(ret.y, "C") = 3
    /\ Len(ret.X) = Len(X) + 1

-----------------------------------------------------------------------------
(* MultivariateGaussian refitted on other data *)

\* The caller turns to other data between two calls on the same instance, as
\* plot_feature_importance does when it refits the pipeline on the features of
\* the next filter: here, the arrays without their last row.
NewData ==
    /\ mg_fit = "completed"
    /\ mg_calls < MaxCalls
    /\ Len(y) > 0
    /\ X' = SubSeq(X, 1, Len(X) - 1)
    /\ y' = SubSeq(y, 1, Len(y) - 1)
    /\ UNCHANGED <<samples_per_class, random_state, sampling_strategy_, mean_, cov_, rs_,
                   mg_calls, mg_fit, nan_raises, ret>>
    /\ UNCHANGED mg_frame

NextRefit == FitResample \/ MoreSamples \/ NewData

SpecRefit == InitResampler /\ [][NextRefit]_vars

\* The step is a call of `op` on the instance.
call_step(op) == mg_calls' = mg_calls + 1 /\ ret'.op = op

\* C11 (as claimed): once a class has a stored mean and covariance, no step
\* changes them.
C11_StoredDistributionsImmutable ==
    [][\A c \in DOMAIN mean_ \cap DOMAIN cov_ :
            /\ c \in DOMAIN mean_' /\ mean_'[c] = mean_[c]
            /\ c \in DOMAIN cov_' /\ cov_'[c] = cov_[c]]_vars

\* C11 (amended): the stored means and covariances are changed by fit_resample
\* only.  more_samples changes none; a fit_resample that returns replaces those
\* of every class of its data by the mean and covariance of that data, and
\* keeps the entries of the classes its data does not have.
C11_OnlyFitResampleRestores ==
    [][/\ ~call_step("fit_resample") =>
            /\ DOMAIN mean_' = DOMAIN mean_ /\ DOMAIN cov_' = DOMAIN cov_
            /\ \A c \in DOMAIN mean_ : mean_'[c] = mean_[c]
            /\ \A c \in DOMAIN cov_ : cov_'[c] = cov_[c]
       /\ (call_step("fit_resample") /\ ret'.raised = "") =>
            /\ DOMAIN mean_' = DOMAIN mean_ \cup Range(unique(y))
            /\ DOMAIN cov_' = DOMAIN cov_ \cup Range(unique(y))
            /\ \A c \in Range(unique(y)) :
                /\ mean_'[c] = np_mean(rows_of_class(X, y, c))
                /\ cov_'[c] = np_cov(rows_of_class(X, y, c))
            /\ \A c \in DOMAIN mean_ \ Range(unique(y)) :
                mean_'[c] = mean_[c] /\ cov_'[c] = cov_[c]]_vars

\* C11 witness: a second fit_resample returned on data that lost a class the
\* first one had fitted, and that changed the mean of another.
C11_Witness ==
    /\ returned("fit_resample")
    /\ mg_calls = 2
    /\ \E c \in DOMAIN mean_ : c \notin Range(unique(y))
    /\ Len(y) >= 3


-----------------------------------------------------------------------------
(* The pipeline: _train, train_classifier, classify *)

\* The data tables handed to the entry points.
Tables == {"train.txt", "other.txt"}

\* The resampler a step holds has a fit_resample method; the other steps are
\* transformers (fit_transform / transform) or the final estimator.
is_sampler(step) == step.name = "sampler"

\* A pipeline that puts the sampler in front of the scaler.
train_steps_sampler_first(args) ==
    <<[name |-> "sampler", object |-> args.sampler],
      [name |-> "scaler", object |-> "StandardScaler"],
      [name |-> "classifier", object |-> args.classifier]>>

\* Line 438: Pipeline([('scaler', StandardScaler()), ('sampler', sampler),
\* ('classifier', clf)]).
train_steps(args) ==
    <<[name |-> "scaler", object |-> "StandardScaler"],
      [name |-> "sampler", object |-> args.sampler],
      [name |-> "classifier", object |-> args.classifier]>>

\* One invocation of a stage: the method and the stages the data handed to it
\* has been through already.
stage_call(step, method, seen) == [stage |-> step.name, method |-> method, input |-> seen]

\* pipeline.fit(X, y) of the imbalanced-learn Pipeline: every step but the last
\* is fit_resample'd when it is a sampler and fit_transform'ed otherwise, each
\* on the output of the one before; the last step is fitted on the result.
RECURSIVE fit_stages(_, _)
fit_stages(steps, seen) ==
    IF Len(steps) = 1 THEN <<stage_call(steps[1], "fit", seen)>>
    ELSE <<stage_call(Head(steps), IF is_sampler(Head(steps)) THEN "fit_resample"
                                   ELSE "fit_transform", seen)>>
         \o fit_stages(Tail(steps), Append(seen, Head(steps).name))

\* pipeline.predict_proba(X): every step but the last that is not a sampler
\* transforms the data with its fitted parameters; the last step predicts.
RECURSIVE predict_stages(_, _)
predict_stages(steps, seen) ==
    IF Len(steps) = 1 THEN <<stage_call(steps[1], "predict_proba", seen)>>
    ELSE IF is_sampler(Head(steps)) THEN predict_stages(Tail(steps), seen)
    ELSE <<stage_call(Head(steps), "transform", seen)>>
         \o predict_stages(Tail(steps), Append(seen, Head(steps).name))

\* Lines 419-420, 484-485 and 491-492: the messages of the ValueError raised
\* for a 'type' column with a missing value.
training_type_error == "ValueError: training data is missing values in the \"type\" column"
validation_type_error == "ValueError: validation data is missing values in the \"type\" column"

\* The filters of train_data.meta['filters'].
FeatureFilters == <<"g", "r">>

\* What an entry point does after its input is accepted: the exception that
\* ends it ("" = none), the calls it makes on the pipeline and the files it
\* writes.
\* Lines 422-441 of _train: build the pipeline, fit it, pickle it.
train_outcome(args, table) ==
    [error |-> "",
     log |-> <<[call |-> "fit", table |-> table,
                stages |-> fit_stages(train_steps(args), <<>>)]>>,
     written |-> {"pipeline.pickle"}]

\* Lines 494-499 of _validate.  plot_feature_importance fits the pipeline on
\* each filter's features and reads classifier.feature_importances_ (only a
\* random forest has it) and sampler.more_samples (only MultivariateGaussian
\* has it); validate_classifier fits on the training set, predicts, and then
\* raises TypeError at line 235, so no report is written.
validate_outcome(steps, train, validation) ==
    LET fit == [call |-> "fit", table |-> train, stages |-> fit_stages(steps, <<>>)]
        predict == [call |-> "predict_proba", table |-> validation,
                    stages |-> predict_stages(steps, <<>>)]
    IN  IF steps[3].object # "rf" \/ steps[2].object # "mvg"
        THEN [error |-> "AttributeError", log |-> <<fit>>, written |-> {}]
        ELSE [error |-> "TypeError",
              log |-> [f \in DOMAIN FeatureFilters |-> fit] \o <<fit, predict>>,
              written |-> {"feature_importance.pdf"}]

\* A check of the 'type' column made after the work, not before it.
type_check_late(masked, error, outcome) ==
    IF masked THEN [outcome EXCEPT !.error = error] ELSE outcome

\* if data['type'].mask.any(): raise ValueError(...), ahead of everything else
\* the entry point does with the table.
type_check(masked, error, outcome) ==
    IF masked THEN [error |-> error, log |-> <<>>, written |-> {}] ELSE outcome

\* Lines 417-442 (_train): reject a training table with missing labels, build
\* the pipeline from the choices, train_classifier (pipeline.fit) and pickle it.
Train ==
    /\ Len(pl_log) < MaxPipelineCalls
    /\ pl_steps = <<>>
    /\ \E table \in Tables, type_masked \in BOOLEAN :
        \E out \in {type_check(type_masked, training_type_error,
                               train_outcome(pl_args, table))} :
            /\ pl_entry' = [name |-> "_train", masked |-> type_masked]
            /\ pl_error' = out.error
            /\ pl_log' = pl_log \o out.log
            /\ pl_steps' = IF out.log # <<>> THEN train_steps(pl_args) ELSE pl_steps
            /\ pl_written' = pl_written \cup out.written
            /\ pl_pickled' = (pl_pickled \/ "pipeline.pickle" \in out.written)
    /\ UNCHANGED pl_args
    /\ UNCHANGED pl_frame

\* Lines 479-500 (_validate) on the pickled pipeline: reject a validation or
\* training table with missing labels, then plot_feature_importance,
\* validate_classifier and the reports.
Validate ==
    /\ Len(pl_log) < MaxPipelineCalls
    /\ pl_pickled
    /\ \E validation \in Tables, train_given \in BOOLEAN, validation_masked \in BOOLEAN,
          train_masked \in BOOLEAN :
        \E train \in (IF train_given THEN Tables ELSE {validation}) :
        \E out \in {type_check(validation_masked, validation_type_error,
                        type_check(train_given /\ train_masked, training_type_error,
                                   validate_outcome(pl_steps, train, validation)))} :
            /\ pl_entry' = [name |-> "_validate",
                            masked |-> validation_masked \/ (train_given /\ train_masked)]
            /\ pl_error' = out.error
            /\ pl_log' = pl_log \o out.log
            /\ pl_written' = pl_written \cup out.written
    /\ UNCHANGED <<pl_args, pl_steps, pl_pickled>>
    /\ UNCHANGED pl_frame

\* Lines 142-153 (train_classifier) on a pipeline that exists: fit it again.
TrainClassifier ==
    /\ Len(pl_log) < MaxPipelineCalls
    /\ pl_steps # <<>>
    /\ \E table \in Tables :
        pl_log' = Append(pl_log, [call |-> "fit", table |-> table,
                                  stages |-> fit_stages(pl_steps, <<>>)])
    /\ pl_error' = ""
    /\ pl_entry' = [name |-> "train_classifier", masked |-> FALSE]
    /\ UNCHANGED <<pl_args, pl_steps, pl_pickled, pl_written>>
    /\ UNCHANGED pl_frame

\* Lines 156-177 (classify): pipeline.predict_proba on the test table, then the
\* optional aggregation of the table.
Classify ==
    /\ Len(pl_log) < MaxPipelineCalls
    /\ pl_steps # <<>>
    /\ \E table \in Tables, agg \in BOOLEAN :
        pl_log' = Append(pl_log, [call |-> "predict_proba", table |-> table,
                                  stages |-> predict_stages(pl_steps, <<>>)])
    /\ pl_error' = ""
    /\ pl_entry' = [name |-> "classify", masked |-> FALSE]
    /\ UNCHANGED <<pl_args, pl_steps, pl_pickled, pl_written>>
    /\ UNCHANGED pl_frame

\* The resampler and validate_classifier are not in use.
mg_idle ==
    /\ mg_constructed
    /\ X = <<>>
    /\ y = <<>>
    /\ samples_per_class = <<>>
    /\ random_state = <<>>
    /\ nan_raises = TRUE

\* Lines 406-415: the choices argparse accepts.
InitPipeline ==
    /\ pl_args \in [classifier : {"rf", "svm", "mlp"}, sampler : {"mvg", "smote"}]
    /\ pl_steps = <<>>
    /\ pl_log = <<>>
    /\ pl_error = ""
    /\ pl_pickled = FALSE
    /\ pl_written = {}
    /\ pl_entry = [name |-> "", masked |-> FALSE]
    /\ vc_idle
    /\ mg_idle
    /\ ag_idle
    /\ cm_idle
    /\ pt_idle
    /\ ef_idle
    /\ sg_idle

NextPipeline == Train \/ TrainClassifier \/ Classify \/ Validate

SpecPipeline == InitPipeline /\ [][NextPipeline]_vars

\* C12: every fit of the pipeline runs scaler.fit_transform on the raw data,
\* then sampler.fit_resample on the scaled data, then classifier.fit on the
\* scaled and resampled data; every predict_proba runs scaler.transform and
\* then classifier.predict_proba on the scaled data, and invokes no method of
\* the sampler.
C12_StageOrder ==
    \A k \in DOMAIN pl_log :
        IF pl_log[k].call = "fit"
        THEN pl_log[k].stages =
                <<[stage |-> "scaler", method |-> "fit_transform", input |-> <<>>],
                  [stage |-> "sampler", method |-> "fit_resample", input |-> <<"scaler">>],
                  [stage |-> "classifier", method |-> "fit",
                   input |-> <<"scaler", "sampler">>]>>
        ELSE /\ pl_log[k].stages =
                <<[stage |-> "scaler", method |-> "transform", input |-> <<>>],
                  [stage |-> "classifier", method |-> "predict_proba",
                   input |-> <<"scaler">>]>>
             /\ \A j \in DOMAIN pl_log[k].stages : pl_log[k].stages[j].stage # "sampler"

\* C12 witness: _train fitted the pipeline and classify then predicted with it.
C12_Witness ==
    /\ Len(pl_log) >= 2
    /\ pl_log[1].call = "fit"
    /\ pl_log[Len(pl_log)].call = "predict_proba"
    /\ pl_pickled


-----------------------------------------------------------------------------
(* aggregate_probabilities *)

\* The probability vectors of classify: one entry per class of Types.
ProbVectors == {<<fraction(0, 1), fraction(1, 1)>>, <<fraction(1, 2), fraction(1, 2)>>}

\* The rows of a table with its 'probabilities' column; 'type' may be masked.
AgFilenames == {Filenames[1], Filenames[2]}
AgRows == [filename : AgFilenames, type : Range(Types), mask : BOOLEAN,
           probabilities : ProbVectors]

\* Line 199-204, first call: on a table that classify filled in.
Aggregate ==
    /\ ag_calls = 0
    /\ ag_results' = aggregate_probabilities(ag_table)
    /\ ag_calls' = 1
    /\ UNCHANGED ag_table
    /\ UNCHANGED ag_frame

\* Line 199-204, again: on the table the last call returned.
Reaggregate ==
    /\ ag_calls \in 1..(MaxAggregations - 1)
    /\ ag_table' = ag_results
    /\ ag_results' = aggregate_probabilities(ag_results)
    /\ ag_calls' = ag_calls + 1
    /\ UNCHANGED ag_frame

\* Lines 174-176: the table of classify has at least one row (reshape raises
\* on an empty one) and a probability vector in every row.
InitAggregate ==
    /\ ag_table \in SeqsUpTo(AgRows, MaxRows) \ {<<>>}
    /\ ag_results = <<>>
    /\ ag_calls = 0
    /\ vc_idle
    /\ mg_idle
    /\ pl_idle
    /\ cm_idle
    /\ pt_idle
    /\ ef_idle
    /\ sg_idle

NextAggregate == Aggregate \/ Reaggregate

SpecAggregate == InitAggregate /\ [][NextAggregate]_vars

\* The metadata tuple of a row: its filename and its label, a missing label
\* being one value.
metadata(row) == <<row.filename, IF row.mask THEN "missing" ELSE row.type>>

\* The rows of a table that carry a metadata tuple.
group_of(table, meta) == {k \in DOMAIN table : metadata(table[k]) = meta}

\* The tuples of a table.
metadata_tuples(table) == {metadata(table[k]) : k \in DOMAIN table}

\* v is the mean of the j-th entries of the rows ks of a table of vectors
\* with denominators 1 or 2: v * |ks| = sum.
RECURSIVE twice_sum(_, _, _)
twice_sum(table, ks, j) ==
    IF ks = {} THEN 0
    ELSE LET k == CHOOSE k \in ks : TRUE
             p == table[k].probabilities[j]
         IN  (2 * p[1]) \div p[2] + twice_sum(table, ks \ {k}, j)

is_mean_of(v, table, ks, j) ==
    v[2] > 0 /\ 2 * v[1] * Cardinality(ks) = v[2] * twice_sum(table, ks, j)

\* C13: a call on a table of classify returns exactly one row per distinct
\* metadata tuple of its input, carrying the element-wise mean of the
\* probability vectors of the input rows with that tuple; so it has at most as
\* many rows as the input, and as many iff no two input rows share a tuple.
C13_OneRowPerTupleWithMean ==
    ag_calls = 1 =>
        /\ Len(ag_results) = Cardinality(metadata_tuples(ag_table))
        /\ \A meta \in metadata_tuples(ag_table) :
              \E g \in DOMAIN ag_results :
                  /\ ag_results[g].filename = meta[1]
                  /\ \A k \in group_of(ag_table, meta) :
                        IF ag_table[k].mask THEN ag_results[g].type \notin Range(Types)
                        ELSE ag_results[g].type = ag_table[k].type
                  /\ \A j \in DOMAIN ag_results[g].probabilities :
                        is_mean_of(ag_results[g].probabilities[j], ag_table,
                                   group_of(ag_table, meta), j)
        /\ Len(ag_results) <= Len(ag_table)
        /\ Len(ag_results) = Len(ag_table) <=>
              \A k1, k2 \in DOMAIN ag_table :
                  metadata(ag_table[k1]) = metadata(ag_table[k2]) => k1 = k2

\* C13 witness: two draws of one object with different probability vectors and
\* one draw of another were aggregated into two rows.
C13_Witness ==
    /\ ag_calls = 1
    /\ Len(ag_table) = 3
    /\ Len(ag_results) = 2
    /\ \E k1, k2 \in DOMAIN ag_table :
          /\ metadata(ag_table[k1]) = metadata(ag_table[k2])
          /\ ag_table[k1].probabilities # ag_table[k2].probabilities


\* A table with one row per distinct metadata tuple.
one_row_per_tuple(table) == Cardinality(metadata_tuples(table)) = Len(table)

\* The rows of a table, whatever their order; the label of a row with a
\* missing label is left out of the comparison.
row_set(table) ==
    {[filename |-> table[k].filename, label |-> metadata(table[k])[2],
      probabilities |-> table[k].probabilities] : k \in DOMAIN table}

\* C14: a call on a table that already has one row per distinct metadata tuple
\* returns a table with the same rows: same metadata, same labels, the same
\* labels missing, same probability vectors.
C14_Idempotent ==
    (ag_calls >= 1 /\ one_row_per_tuple(ag_table)) => row_set(ag_results) = row_set(ag_table)

\* C15: every row returned for a group of rows whose 'type' is missing has a
\* missing (masked) 'type', and every row returned for a group of labeled rows
\* carries their label.
C15_MissingLabelStaysMissing ==
    ag_calls = 1 =>
        \A k \in DOMAIN ag_table :
            \E g \in DOMAIN ag_results :
                /\ ag_results[g].filename = ag_table[k].filename
                /\ ag_results[g].mask = ag_table[k].mask
                /\ ~ag_table[k].mask => ag_results[g].type = ag_table[k].type


-----------------------------------------------------------------------------
(* make_confusion_matrix *)

\* The classes of a three-class pipeline (pipeline.classes_, sorted), and every
\* label a confusion matrix can carry, in sorted order.
SNTypes == <<"SLSN", "SNII", "SNIa">>
Labels == <<"CCSN">> \o SNTypes

frac_gt(a, b) == a[1] * b[2] > b[1] * a[2]
frac_lt(a, b) == frac_gt(b, a)

\* np.argmax(v): the first position holding the largest entry.
argmax(v) ==
    CHOOSE j \in DOMAIN v :
        /\ \A i \in DOMAIN v : ~frac_gt(v[i], v[j])
        /\ \A i \in 1..(j - 1) : frac_gt(v[j], v[i])

\* np.round(p).astype(int) for p in [0, 1]: halves round to the even integer.
np_round(p) == IF frac_gt(p, fraction(1, 2)) THEN 1 ELSE 0

\* np.unique / unique_labels: the labels present, sorted.
unique_labels(present) == Select(Labels, [k \in DOMAIN Labels |-> Labels[k] \in present])

\* A selection that keeps the rows with a missing label too.
unmasked_keep_all(results) == [k \in DOMAIN results |-> k]

\* Line 262, results[~results['type'].mask]: the positions of the labeled rows.
unmasked(results) ==
    Select([k \in DOMAIN results |-> k], [k \in DOMAIN results |-> ~results[k].mask])

\* A threshold that also keeps a row whose top probability equals p_min.
include_multiclass_ge(p, p_min) == ~frac_lt(p[argmax(p)], p_min)

\* Line 272: results['probabilities'].max(axis=1) > p_min
include_multiclass(p, p_min) == frac_gt(p[argmax(p)], p_min)

\* A threshold on the upper tail only.
include_binary_upper(SNIa_prob, p_min) == frac_gt(SNIa_prob, p_min)

\* Line 269: (SNIa_probs > p_min) | (SNIa_probs < 1. - p_min)
include_binary(SNIa_prob, p_min) ==
    \/ frac_gt(SNIa_prob, p_min)
    \/ frac_lt(SNIa_prob, fraction(p_min[2] - p_min[1], p_min[2]))

\* A binary prediction that relabels the multiclass prediction.
predicted_binary_argmax(p, col) == IF argmax(p) = col THEN "SNIa" ELSE "CCSN"

\* Line 268: np.choose(np.round(SNIa_probs).astype(int), ['CCSN', 'SNIa'])
predicted_binary(p, col) == <<"CCSN", "SNIa">>[np_round(p[col]) + 1]

\* Line 265: 'SNIa' if sntype == 'SNIa' else 'CCSN'
binary_type(sntype) == IF sntype = "SNIa" THEN "SNIa" ELSE "CCSN"

\* sklearn.metrics.confusion_matrix(y_true, y_pred) without labels=: one row
\* and one column per label that occurs in y_true or y_pred, sorted.
confusion_matrix(y_true, y_pred) ==
    LET labels == unique_labels(Range(y_true) \cup Range(y_pred))
    IN  [labels |-> labels,
         cells |-> [i \in DOMAIN labels |-> [j \in DOMAIN labels |->
                      Cardinality({k \in DOMAIN y_true :
                                      y_true[k] = labels[i] /\ y_pred[k] = labels[j]})]]]

\* sklearn.metrics.accuracy_score: the fraction of rows predicted right
\* (not-a-number on no rows).
accuracy_score(y_true, y_pred) ==
    fraction(Cardinality({k \in DOMAIN y_true : y_true[k] = y_pred[k]}), Len(y_true))

\* Lines 262-287 up to the plot.  An index out of range (no 'SNIa' in the class
\* list, or an argmax beyond the class list) raises IndexError.
make_confusion_matrix(results, args) ==
    LET rows == unmasked(results)
        type(k) == results[rows[k]].type
        probs(k) == results[rows[k]].probabilities
        classes == IF args.classes_given THEN args.classes
                   ELSE unique_labels({type(k) : k \in DOMAIN rows})
        where == {c \in DOMAIN classes : classes[c] = "SNIa"}
        col == CHOOSE c \in where : \A d \in where : c <= d
        raises == IF args.binary
                  THEN where = {} \/ \E k \in DOMAIN rows : col \notin DOMAIN probs(k)
                  ELSE \E k \in DOMAIN rows : argmax(probs(k)) \notin DOMAIN classes
        true_types == [k \in DOMAIN rows |-> IF args.binary THEN binary_type(type(k)) ELSE type(k)]
        predicted_types == [k \in DOMAIN rows |->
                               IF args.binary THEN predicted_binary(probs(k), col)
                               ELSE classes[argmax(probs(k))]]
        include == [k \in DOMAIN rows |->
                       IF args.binary THEN include_binary(probs(k)[col], args.p_min)
                       ELSE include_multiclass(probs(k), args.p_min)]
        plot_classes == IF args.binary THEN <<"CCSN", "SNIa">> ELSE classes
        stats == (Len(plot_classes) + 1) * 5 > 3 * 6
    IN  IF raises THEN [cm_nothing EXCEPT !.called = TRUE, !.raised = "IndexError"]
        ELSE LET y_true == Select(true_types, include)
                 y_pred == Select(predicted_types, include)
                 cnf == confusion_matrix(y_true, y_pred)
             IN  [called |-> TRUE, raised |-> "",
                  tabulated |-> Select(rows, include),
                  y_true |-> y_true, y_pred |-> y_pred,
                  labels |-> cnf.labels, cnf_matrix |-> cnf.cells,
                  classes |-> plot_classes,
                  stats |-> stats,
                  N |-> IF stats THEN count_nonzero(include) ELSE 0,
                  accuracy |-> IF stats THEN accuracy_score(y_true, y_pred) ELSE <<0, 0>>,
                  f1_args |-> IF stats THEN <<y_true, y_pred>> ELSE <<>>]

\* The probability vectors of the rows, one entry per class of SNTypes.
CmProbVectors ==
    {<<fraction(0, 1), fraction(0, 1), fraction(1, 1)>>,
     <<fraction(3, 10), fraction(3, 10), fraction(2, 5)>>,
     <<fraction(1, 2), fraction(0, 1), fraction(1, 2)>>,
     <<fraction(4, 5), fraction(1, 5), fraction(0, 1)>>,
     <<fraction(1, 5), fraction(0, 1), fraction(4, 5)>>}

CmRows == [type : Range(SNTypes), mask : BOOLEAN, probabilities : CmProbVectors]

\* The confidence thresholds (--pmin).
PMins == {fraction(0, 1), fraction(1, 2), fraction(4, 5)}

\* The call of make_confusion_matrix on the caller's table.
MakeConfusionMatrix ==
    /\ ~cm_out.called
    /\ \E classes_given \in BOOLEAN, p_min \in PMins, binary \in BOOLEAN :
        \E args \in {[classes_given |-> classes_given,
                      classes |-> IF classes_given THEN SNTypes ELSE <<>>,
                      p_min |-> p_min, binary |-> binary]} :
            /\ cm_args' = args
            /\ cm_out' = make_confusion_matrix(cm_results, args)
    /\ UNCHANGED cm_results
    /\ UNCHANGED cm_frame

InitConfusion ==
    /\ cm_results \in SeqsUpTo(CmRows, MaxCmRows) \ {<<>>}
    /\ cm_args = [classes_given |-> FALSE, classes |-> <<>>, p_min |-> <<0, 1>>,
                  binary |-> FALSE]
    /\ cm_out = cm_nothing
    /\ vc_idle
    /\ mg_idle
    /\ pl_idle
    /\ ag_idle
    /\ pt_idle
    /\ ef_idle
    /\ sg_idle

NextConfusion == MakeConfusionMatrix

SpecConfusion == InitConfusion /\ [][NextConfusion]_vars

\* The call returned a matrix.
tabulated_call == cm_out.called /\ cm_out.raised = ""

RECURSIVE sum_seq(_)
sum_seq(s) == IF Len(s) = 0 THEN 0 ELSE Head(s) + sum_seq(Tail(s))

\* The total of the cells of the matrix.
cells_total(matrix) == sum_seq([i \in DOMAIN matrix |-> sum_seq(matrix[i])])

\* C16: no row with a missing label is tabulated, in either mode: the cells of
\* the matrix add up to the number of tabulated rows, all of them labeled, and
\* the N, accuracy and F1 of the title are computed from those rows alone.
C16_MissingLabelNotCounted ==
    tabulated_call =>
        /\ \A k \in DOMAIN cm_out.tabulated : ~cm_results[cm_out.tabulated[k]].mask
        /\ cells_total(cm_out.cnf_matrix) = Len(cm_out.tabulated)
        /\ Len(cm_out.y_true) = Len(cm_out.tabulated)
        /\ cm_out.stats =>
              /\ cm_out.N = Len(cm_out.tabulated)
              /\ cm_out.f1_args = <<cm_out.y_true, cm_out.y_pred>>
              /\ cm_out.N > 0 =>
                    cm_out.accuracy[1] * cm_out.N = cm_out.accuracy[2] *
                        Cardinality({k \in DOMAIN cm_out.tabulated :
                            cm_out.y_pred[k] = cm_results[cm_out.tabulated[k]].type})

\* C16 witness: a table with a labeled row and a row with a missing label was
\* tabulated with the statistics in the title, and the labeled row counted.
C16_Witness ==
    /\ tabulated_call
    /\ cm_out.stats
    /\ cm_out.N = 1
    /\ \E k \in DOMAIN cm_results : cm_results[k].mask


\* The labeled rows of the caller's table and the rows the call tabulated.
labeled_rows == {k \in DOMAIN cm_results : ~cm_results[k].mask}
tabulated_rows == Range(cm_out.tabulated)

class_list ==
    IF cm_args.classes_given THEN cm_args.classes
    ELSE unique_labels({cm_results[k].type : k \in labeled_rows})

SNIa_col == CHOOSE c \in DOMAIN class_list : class_list[c] = "SNIa"

\* The SNIa probability of a row of the caller's table.
SNIa_prob(k) == cm_results[k].probabilities[SNIa_col]

one_minus(p) == fraction(p[2] - p[1], p[2])

C19_MatrixOverClassList ==
    tabulated_call =>
        /\ cm_out.labels = cm_out.classes
        /\ Len(cm_out.cnf_matrix) = Len(cm_out.classes)
        /\ \A i \in DOMAIN cm_out.cnf_matrix : Len(cm_out.cnf_matrix[i]) = Len(cm_out.classes)
        /\ cm_args.binary => cm_out.labels = <<"CCSN", "SNIa">>

\* C20 (as stated): in binary mode the predicted label of a tabulated row is
\* 'SNIa' exactly when the argmax of its probability vector is the SNIa class,
\* and its true label is 'SNIa' iff its type is 'SNIa'.
C20_BinaryPredictionIsRelabelledArgmax ==
    (tabulated_call /\ cm_args.binary) =>
        \A i \in DOMAIN cm_out.tabulated :
            LET row == cm_results[cm_out.tabulated[i]]
            IN  /\ cm_out.y_pred[i] = "SNIa" <=>
                      /\ \A h \in DOMAIN row.probabilities :
                            ~frac_gt(row.probabilities[h], row.probabilities[SNIa_col])
                      /\ \A h \in 1..(SNIa_col - 1) :
                            frac_lt(row.probabilities[h], row.probabilities[SNIa_col])
                /\ cm_out.y_pred[i] \in {"SNIa", "CCSN"}
                /\ cm_out.y_true[i] = "SNIa" <=> row.type = "SNIa"
                /\ cm_out.y_true[i] \in {"SNIa", "CCSN"}

\* C20 (amended): in binary mode the predicted label of a tabulated row is
\* 'SNIa' exactly when its SNIa probability is greater than one half, whatever
\* the argmax of the vector, and 'CCSN' otherwise; its true label is 'SNIa' iff
\* its type is 'SNIa', and 'CCSN' otherwise.
C20_BinaryPredictionIsRoundedSNIaProbability ==
    (tabulated_call /\ cm_args.binary) =>
        \A i \in DOMAIN cm_out.tabulated :
            LET row == cm_results[cm_out.tabulated[i]]
            IN  /\ cm_out.y_pred[i] = "SNIa" <=>
                      frac_gt(row.probabilities[SNIa_col], fraction(1, 2))
                /\ cm_out.y_pred[i] \in {"SNIa", "CCSN"}
                /\ cm_out.y_true[i] = "SNIa" <=> row.type = "SNIa"
                /\ cm_out.y_true[i] \in {"SNIa", "CCSN"}

\* C20 witness: a binary call over the three-class list tabulated a row whose
\* argmax is the SNIa class with an SNIa probability below one half, and
\* predicted 'CCSN' for it.
C20_Witness ==
    /\ tabulated_call
    /\ cm_args.binary
    /\ cm_args.classes_given
    /\ \E i \in DOMAIN cm_out.tabulated :
          LET row == cm_results[cm_out.tabulated[i]]
          IN  /\ argmax(row.probabilities) = SNIa_col
              /\ frac_lt(row.probabilities[SNIa_col], fraction(1, 2))
              /\ cm_out.y_pred[i] = "CCSN"


-----------------------------------------------------------------------------
(* plot_confusion_matrix: the normalisation *)

\* Line 50: confusion_matrix.sum(axis=1)
n_per_true_class(matrix) == [i \in DOMAIN matrix |-> sum_seq(matrix[i])]

\* Line 51: confusion_matrix.sum(axis=0)
n_per_pred_class(matrix) ==
    [j \in DOMAIN matrix |-> sum_seq([i \in DOMAIN matrix |-> matrix[i][j]])]

\* numpy's true division of counts: 0/0 is not-a-number and n/0 is infinite,
\* each with a RuntimeWarning and without an exception.
true_divide(a, b) == IF b = 0 THEN (IF a = 0 THEN <<0, 0>> ELSE <<1, 0>>) ELSE fraction(a, b)

\* A normalisation by the other axis.
divisor_swapped(matrix, purity, i, j) ==
    IF purity THEN n_per_true_class(matrix)[i] ELSE n_per_pred_class(matrix)[j]

\* Lines 52-55: the total each cell is divided by, n_per_pred_class[np.newaxis, :]
\* if purity else n_per_true_class[:, np.newaxis].
divisor(matrix, purity, i, j) ==
    IF purity THEN n_per_pred_class(matrix)[j] ELSE n_per_true_class(matrix)[i]

\* np.nanmax(cm): the largest cell that is a number; not-a-number if none is.
nanmax(cm) ==
    LET numbers == {cm[i][j] : i \in DOMAIN cm, j \in DOMAIN cm} \ {<<0, 0>>}
    IN  IF numbers = {} THEN <<0, 0>>
        ELSE CHOOSE v \in numbers : \A w \in numbers : ~frac_gt(w, v)

\* Lines 50-66 of plot_confusion_matrix.
plot_confusion_matrix(matrix, purity) ==
    LET cm == [i \in DOMAIN matrix |-> [j \in DOMAIN matrix |->
                  true_divide(matrix[i][j], divisor(matrix, purity, i, j))]]
    IN  [called |-> TRUE, purity |-> purity,
         n_per_true_class |-> n_per_true_class(matrix),
         n_per_pred_class |-> n_per_pred_class(matrix),
         cm |-> cm,
         thresh |-> fraction(nanmax(cm)[1], 2 * nanmax(cm)[2])]

\* The call of plot_confusion_matrix on the caller's matrix.
PlotConfusionMatrix ==
    /\ ~pt_out.called
    /\ \E purity \in BOOLEAN : pt_out' = plot_confusion_matrix(pt_matrix, purity)
    /\ UNCHANGED pt_matrix
    /\ UNCHANGED pt_frame

\* The square matrices of counts with at least one class.
SquareMatrices == UNION {[1..n -> [1..n -> 0..MaxCount]] : n \in 1..MaxPlotClasses}

InitPlot ==
    /\ pt_matrix \in SquareMatrices
    /\ pt_out = pt_nothing
    /\ vc_idle
    /\ mg_idle
    /\ pl_idle
    /\ ag_idle
    /\ cm_idle
    /\ ef_idle
    /\ sg_idle

NextPlot == PlotConfusionMatrix

SpecPlot == InitPlot /\ [][NextPlot]_vars

\* The sum of a sequence of fractions.
RECURSIVE frac_sum(_)
frac_sum(s) == IF Len(s) = 0 THEN <<0, 1>> ELSE frac_add(Head(s), frac_sum(Tail(s)))

\* The cells of the normalised matrix along one true class / one predicted class.
cm_row(i) == pt_out.cm[i]
cm_column(j) == [i \in DOMAIN pt_out.cm |-> pt_out.cm[i][j]]

\* C21: the normalisation completes for every matrix; in completeness mode the
\* cells of every true class with a nonzero count sum to 1 and those of a true
\* class with no row are all not-a-number; in purity mode the same holds per
\* predicted class (column).
C21_NormalisedSumsToOne ==
    pt_out.called =>
        \A c \in DOMAIN pt_matrix :
            IF pt_out.purity
            THEN IF sum_seq([i \in DOMAIN pt_matrix |-> pt_matrix[i][c]]) > 0
                 THEN frac_sum(cm_column(c)) = <<1, 1>>
                 ELSE \A i \in DOMAIN pt_matrix : pt_out.cm[i][c] = <<0, 0>>
            ELSE IF sum_seq(pt_matrix[c]) > 0
                 THEN frac_sum(cm_row(c)) = <<1, 1>>
                 ELSE \A j \in DOMAIN pt_matrix : pt_out.cm[c][j] = <<0, 0>>

\* C21 witness: true = [A, A], predicted = [A, B] was normalised in completeness
\* mode: row A is [0.5, 0.5] and row B, a class with no true row, is
\* not-a-number.
C21_Witness ==
    /\ pt_out.called
    /\ ~pt_out.purity
    /\ pt_matrix = <<(<<1, 1>>), (<<0, 0>>)>>
    /\ pt_out.cm = <<(<<(<<1, 2>>), (<<1, 2>>)>>), (<<(<<0, 0>>), (<<0, 0>>)>>)>>


\* C22: a run of _train or _validate on a table whose 'type' column has a
\* missing value ends with the ValueError that names the "type" column, and
\* makes no call on a pipeline (no fit, no prediction), builds none and writes
\* no file.
C22_MissingTypeRejectedFirst ==
    [][(pl_entry'.masked /\ pl_entry'.name \in {"_train", "_validate"}) =>
          /\ pl_error' \in {training_type_error, validation_type_error}
          /\ pl_entry'.name = "_train" => pl_error' = training_type_error
          /\ pl_log' = pl_log
          /\ pl_steps' = pl_steps
          /\ pl_written' = pl_written
          /\ pl_pickled' = pl_pickled]_vars

\* C22 witness: _validate rejected a validation table with a missing label,
\* leaving only what _train had done before.
C22_Witness ==
    /\ pl_entry = [name |-> "_validate", masked |-> TRUE]
    /\ pl_error = validation_type_error
    /\ Len(pl_log) = 1
    /\ pl_written = {"pipeline.pickle"}


-----------------------------------------------------------------------------
(* The random source of the resampler *)

\* What a fit_resample call on the instance as it is now would compute (the
\* arrays, the stored distributions, the generator left behind, the exception)
\* in a run that finds the process-wide generator in the state global.
fit_resample_in_run(global) ==
    IF fit_raises(y) THEN [raised |-> "ValueError"]
    ELSE LET strategy == sampling_strategy_all(y)
             st == fit_resample_loop(
                       [mean_ |-> mean_, cov_ |-> cov_, rs_ |-> rs_, raised |-> "",
                        X |-> X, y |-> y, np_random |-> global],
                       sorted_keys(strategy), strategy)
         IN  [raised |-> st.raised, X |-> st.X, y |-> st.y,
              mean_ |-> st.mean_, cov_ |-> st.cov_, rs_ |-> st.rs_]

\* The synthetic rows of an array.
synthetic(array) == {j \in DOMAIN array : array[j].kind = "mvn"}

\* C23: an instance constructed with an integer random_state computes the same
\* from fit_resample whatever state the process-wide generator is in, every
\* synthetic row it has returned was drawn from a generator created from its
\* seed, and so is the generator it keeps for more_samples: two instances with
\* the same seed, given the same calls, return the same at every step.
C23_SeededRunsAgree ==
    random_state # <<>> =>
        /\ fit_resample_in_run(np_random_elsewhere) = fit_resample_in_run(np_random)
        /\ \A j \in synthetic(ret.X) : ret.X[j].seed = random_state[1]
        /\ rs_ # <<>> => rs_[1].seed = random_state[1]

\* C23 witness: a seeded instance oversampled at fit_resample and then returned
\* rows from more_samples.
C23_Witness ==
    /\ random_state # <<>>
    /\ returned("more_samples")
    /\ mg_fit = "completed"
    /\ Len(ret.X) > 0


\* C30: in a fit_resample call of a seeded instance every class that receives
\* synthetic rows draws them from a generator newly created from the seed (its
\* rows are draws 1, 2, ... of that seed, whatever was drawn for the classes
\* before it), and the generator kept is the one the last such class left;
\* more_samples draws its rows from the kept generator, one after the other,
\* and leaves it advanced.
C30_GeneratorRecreatedPerClass ==
    [][/\ (call_step("fit_resample") /\ ret'.raised = "" /\ random_state # <<>>) =>
             /\ \A j \in synthetic(ret'.X) :
                   /\ ret'.X[j].seed = random_state[1]
                   /\ ret'.X[j].at =
                         Cardinality({i \in synthetic(ret'.X) : i <= j /\ ret'.y[i] = ret'.y[j]})
             /\ synthetic(ret'.X) # {} =>
                   rs_' = <<[seed |-> random_state[1],
                             pos |-> Cardinality({i \in synthetic(ret'.X) :
                                                     ret'.y[i] = ret'.y[Len(ret'.y)]})]>>
       /\ (call_step("more_samples") /\ ret'.raised = "" /\ random_state # <<>>) =>
             /\ \A j \in DOMAIN ret'.X :
                   /\ ret'.X[j].seed = random_state[1]
                   /\ ret'.X[j].at = rs_[1].pos + j
             /\ rs_' = <<[seed |-> random_state[1], pos |-> rs_[1].pos + Len(ret'.X)]>>]_vars

\* C30 witness: a seeded fit_resample oversampled two classes, and the first
\* synthetic row of each is the first draw of the seed.
C30_Witness ==
    /\ returned("fit_resample")
    /\ random_state # <<>>
    /\ \E i, j \in synthetic(ret.X) :
          /\ ret.y[i] # ret.y[j]
          /\ ret.X[i].at = 1
          /\ ret.X[j].at = 1


-----------------------------------------------------------------------------
(* extract.py: extract_features, the extinction ratios *)

\* extract.py lines 20-21: the built-in ratios (two of them), and a filter
\* that is not built in.
R_FILTERS == [g |-> "3.57585511", r |-> "2.54033913"]
FilterNames == DOMAIN R_FILTERS \cup {"x"}

\* The R_filters dicts a caller passes: ratios for 'g' (built in) and 'x' (not).
CallerDicts == UNION {[S -> {"3.1"}] : S \in SUBSET {"g", "x"}}

\* extract.py lines 294-301: the loop over the filters.  R_filter is the list
\* being built, so R_filter[fltr] at line 297 indexes a list with a string and
\* raises TypeError.
RECURSIVE extinction_ratios(_, _, _)
extinction_ratios(filters, R_filters, R_filter) ==
    IF Len(filters) = 0 THEN [raised |-> "", R_filter |-> R_filter]
    ELSE LET fltr == Head(filters)
         IN  IF R_filters.given /\ fltr \in DOMAIN R_filters.dict
             THEN [raised |-> "TypeError", R_filter |-> R_filter]
             ELSE IF fltr \in DOMAIN R_FILTERS
             THEN extinction_ratios(Tail(filters), R_filters, Append(R_filter, R_FILTERS[fltr]))
             ELSE [raised |-> "ValueError", R_filter |-> R_filter]

\* extract.py lines 287-332: the call up to the loading of the traces, which
\* comes after the loop.
ExtractFeatures ==
    /\ ~ef_out.called
    /\ \E res \in {extinction_ratios(ef_filters, ef_R_filters, <<>>)} :
          ef_out' = [called |-> TRUE, raised |-> res.raised, R_filter |-> res.R_filter,
                     trace_loaded |-> res.raised = ""]
    /\ UNCHANGED <<ef_filters, ef_R_filters>>
    /\ UNCHANGED ef_frame

InitExtract ==
    /\ ef_filters \in SeqsUpTo(FilterNames, MaxFilters)
    /\ ef_R_filters \in {[given |-> FALSE, dict |-> <<>>]}
                        \cup {[given |-> TRUE, dict |-> d] : d \in CallerDicts}
    /\ ef_out = ef_nothing
    /\ vc_idle
    /\ mg_idle
    /\ pl_idle
    /\ ag_idle
    /\ cm_idle
    /\ pt_idle
    /\ sg_idle

NextExtract == ExtractFeatures

SpecExtract == InitExtract /\ [][NextExtract]_vars

\* The filters of the call that are neither in the caller's dict nor built in.
unrecognized ==
    {k \in DOMAIN ef_filters :
        /\ ~(ef_R_filters.given /\ ef_filters[k] \in DOMAIN ef_R_filters.dict)
        /\ ef_filters[k] \notin DOMAIN R_FILTERS}

\* C24: for every requested filter the ratio used is the caller's where the
\* caller's R_filters has the filter and the built-in one otherwise; a filter in
\* neither raises ValueError before any trace is loaded.
C24_CallerRatioOverrides ==
    ef_out.called =>
        IF unrecognized # {}
        THEN ef_out.raised = "ValueError" /\ ~ef_out.trace_loaded
        ELSE /\ ef_out.raised = ""
             /\ ef_out.R_filter =
                   [k \in DOMAIN ef_filters |->
                       IF ef_R_filters.given /\ ef_filters[k] \in DOMAIN ef_R_filters.dict
                       THEN ef_R_filters.dict[ef_filters[k]]
                       ELSE R_FILTERS[ef_filters[k]]]


-----------------------------------------------------------------------------
(* extract.py: select_good_events *)

\* np.isfinite: neither not-a-number nor infinite.
isfinite(value) == value \notin {"nan", "inf"}

\* The values of one row of the data array (all its filters and parameters).
DataRows == {<<"1.0", "1.0">>, <<"1.0", "nan">>, <<"inf", "1.0">>}

\* A reduction that is true when some entry is.
any_axis1(rows) == [e \in DOMAIN rows |-> \E d \in DOMAIN rows[e] : rows[e][d]]

\* a.all(axis=1): true where every entry of the row is.
all_axis1(rows) == [e \in DOMAIN rows |-> \A d \in DOMAIN rows[e] : rows[e][d]]

\* a.reshape(-1, n): rows of n consecutive entries.
reshape_rows(a, n) ==
    [e \in 1..(Len(a) \div n) |-> [d \in 1..n |-> a[(e - 1) * n + d]]]

\* extract.py lines 379-386.
select_good_events(t, data, ndraws) ==
    LET finite_values == [k \in DOMAIN data |-> [c \in DOMAIN data[k] |-> isfinite(data[k][c])]]
        finite_draws == [k \in DOMAIN data |-> \A c \in DOMAIN data[k] : finite_values[k][c]]
        events_with_finite_draws == reshape_rows(finite_draws, ndraws)
        finite_events == all_axis1(events_with_finite_draws)
        draws_from_finite_events == repeat_each(finite_events, ndraws)
    IN  [called |-> TRUE, mask |-> draws_from_finite_events,
         t_good |-> Select(t, draws_from_finite_events),
         good_data |-> Select(data, draws_from_finite_events)]

\* The call of select_good_events.
SelectGoodEvents ==
    /\ ~sg_out.called
    /\ sg_out' = select_good_events(sg_t, sg_data, sg_ndraws)
    /\ UNCHANGED <<sg_t, sg_data, sg_ndraws>>
    /\ UNCHANGED sg_frame

\* extract.py lines 332-334: t holds every event ndraws times in a row, and
\* the data array has one entry per row of t.
InitSelect ==
    /\ sg_ndraws \in 1..MaxDraws
    /\ \E nevents \in 0..MaxEvents :
          /\ sg_t = [k \in 1..(nevents * sg_ndraws) |-> [event |-> ((k - 1) \div sg_ndraws) + 1]]
          /\ sg_data \in [1..(nevents * sg_ndraws) -> DataRows]
    /\ sg_out = sg_nothing
    /\ vc_idle
    /\ mg_idle
    /\ pl_idle
    /\ ag_idle
    /\ cm_idle
    /\ pt_idle
    /\ ef_idle

NextSelect == SelectGoodEvents

SpecSelect == InitSelect /\ [][NextSelect]_vars

\* The rows of t the call kept, and the i-th of them.
kept == {k \in DOMAIN sg_t : sg_out.mask[k]}
nth_kept(i) == CHOOSE k \in kept : Cardinality({j \in kept : j <= k}) = i

-----------------------------------------------------------------------------
(* validate_classifier: the folds of the loop *)

\* Lines 233 and 235: the refit one loop iteration asks for, the pipeline
\* fitted on the training rows of every other group.
fold_fit(filename) == pipeline_fit(Select(train_data, MaskNe(train_data, filename)))

\* pipeline.classes_: the labels the pipeline was fitted on, sorted.
classes_(pl) ==
    Select(Types, [k \in DOMAIN Types |->
                      \E i \in DOMAIN pl.fitted_on : pl.fitted_on[i].type = Types[k]])

\* The loop is through with a training set of at least two groups, so that
\* every fold has rows to fit on.
folds_done ==
    /\ vc_over
    /\ probabilities # <<>>
    /\ Cardinality(train_filenames) >= 2

\* C26: the final table is a function of the groups alone, whatever the order
\* they are visited in: each evaluation row of a training group carries the
\* probabilities of that group's refit (written by that group's update and by
\* no other), every other row the baseline's.
C26_TableIndependentOfOrder ==
    folds_done =>
        \A i \in DOMAIN test_data :
            probabilities[i] = IF test_data[i].filename \in train_filenames
                               THEN fold_fit(test_data[i].filename)
                               ELSE pipeline_fit(train_data)

\* C27: every loop iteration whose fold has training rows leaves the pipeline
\* refitted on that fold, with the class list of the baseline fit.
C27_FoldClassListIsBaseline ==
    [][(/\ vc_pc = "loop"
        /\ vc_i <= Len(train_data)
        /\ Cardinality(train_filenames) >= 2)
       => (/\ pipeline' = fold_fit(train_data[vc_i].filename)
           /\ classes_(pipeline') = classes_(pipeline_fit(train_data)))]_vars

\* C28: validate_classifier returns with the pipeline holding the refit of
\* the last fold (fitted without the last group visited), not the baseline
\* fit on the entire training set.
C28_PipelineHoldsLastFold ==
    folds_done =>
        /\ vc_pc = "returned"
        /\ pipeline = fold_fit(train_data[Len(train_data)].filename)
        /\ pipeline # pipeline_fit(train_data)


-----------------------------------------------------------------------------
(* classify and validate_classifier: the caller's tables *)

\* Lines 174-177: classify(pipeline, test_data, aggregate) predicts every row
\* with the pipeline as it is (one probability vector per row), stores the
\* column on test_data and returns that table or its aggregation.  classify
\* has no train_data argument: the caller's training table plays no part.
ClassifyTable ==
    /\ vc_pc = "start"
    /\ ~test_is_None
    /\ train_data = <<>>
    /\ IF reshape_raises(Len(test_data))
       THEN /\ vc_pc' = "raised"
            /\ vc_error' = "ValueError"
            /\ UNCHANGED <<probabilities, vc_caller, vc_result>>
       ELSE \E column \in [1..Len(test_data) -> ProbVectors] :
                /\ probabilities' = column
                /\ vc_caller' = setitem(vc_caller, denoted_table(FALSE), column)
                /\ vc_result' = IF aggregate
                                THEN aggregate_probabilities(with_probabilities(test_data, column))
                                ELSE with_probabilities(test_data, column)
                /\ vc_pc' = "classified"
                /\ UNCHANGED vc_error
    /\ UNCHANGED <<train_data, test_data, test_is_None, aggregate, pipeline, vc_i, vc_refits,
                   vc_refit_failed>>
    /\ UNCHANGED vc_frame

NextCaller == ValidateBaseline \/ ValidateLoop \/ ClassifyTable

SpecCaller == InitValidate /\ [][NextCaller]_vars

\* The prediction of every row (line 174 or line 231) has been stored.
column_written ==
    \/ vc_pc \in {"loop", "returned", "classified"}
    \/ vc_pc = "raised" /\ vc_i >= 1

\* C29: once classify or validate_classifier has stored its predictions, the
\* table object the caller passed as test_data (its train_data when test_data
\* is None) carries a 'probabilities' column with one entry per row, the one
\* the function works on; this is so whether or not the returned table is a
\* separate aggregated one, and stays so when validation aborts.  The caller's
\* other table is untouched, and nothing is written before.
C29_CallerTableWrittenInPlace ==
    LET object == IF test_is_None THEN "train_data" ELSE "test_data"
        rows == IF test_is_None THEN train_data ELSE test_data
    IN  /\ column_written =>
              /\ vc_caller[object].has
              /\ vc_caller[object].column = probabilities
              /\ Len(vc_caller[object].column) = Len(rows)
              /\ \A o \in DOMAIN vc_caller : o # object => vc_caller[o] = no_column
        /\ ~column_written =>
              \A o \in DOMAIN vc_caller : vc_caller[o] = no_column

\* C29 witness: validate_classifier, called without test_data, aborted in its
\* loop and the caller's train_data carries the column.
C29_Witness ==
    /\ vc_pc = "raised"
    /\ vc_i >= 1
    /\ test_is_None
    /\ vc_caller["train_data"].has
    /\ Len(vc_caller["train_data"].column) = Len(train_data)

====
